---- MODULE Spec2Model ----
(***************************************************************************)
(* Nebula Pad firmware customizer: the OTA image codec and the repackaging *)
(* pipeline of main.py, utils/otatools.py and utils/prepareroot.py.        *)
(*                                                                         *)
(* Text is a sequence of character codes (ASCII), a file's content a       *)
(* sequence of bytes, a directory a function from file names to contents.  *)
(***************************************************************************)
EXTENDS Integers, Sequences, FiniteSets, TLC

VARIABLES
    pc,               \* position of the run
    image,            \* the bytes mksquashfs produced (kept to compare against)
    chunk_size,       \* the window of rootfs_file.read(...), main.py:122
    rootfs_file,      \* working_dir/rootfs.squashfs
    rooted_fs_stats,  \* dict(md5sum, size) of __squash_rooted_fs
    part_files,       \* the rootfs.squashfs.*.* files of each directory: path -> name -> content
    ota_md5_name,     \* digest suffix of the ota_md5_rootfs.squashfs.<md5> file
    ota_md5_file,     \* its lines
    chunk_number, prior_md5, chunk, chunk_hash,   \* locals of __split_rooted_fs
    offset,           \* read position in rootfs_file
    rootfs_parts,     \* the sorted list of __assemble_rootfs
    part_i,           \* its loop position
    assembled,        \* the rootfs.squashfs file __assemble_rootfs writes
    ota_file,         \* the ota_update.in file of each directory: path -> file
    ota_update_data,  \* the dict parse_ota_update_in returns, in insertion order
    ota_version,      \* the version string written to ota_update.in
    ota_raised,       \* the exception a manifest operation ended with, or "none"
    stock_sections,   \* the sections the stock ota_update.in was made of
    m_written,        \* the dict last given to write_ota_update_in
    shadow_file,      \* the text of etc/shadow
    shadow_bak,       \* the lines of the backup fileinput reads from
    shadow_i,         \* the loop position of __set_password
    shadow_raised,    \* the exception __set_password ended with, or "none"
    root_password_hash,
    etc_ota_info,     \* etc/ota_info of the tree: "stock" or "rendered"
    assets_copied,    \* whether the assets have been copied into the tree
    ok_file,          \* whether the ota_v<version>.ok file of the rooted directory exists
    migrated,         \* whether the unchanged stock files have been moved over
    ota_config_file,  \* the ota_config.in file
    rooted_image      \* the firmware image written at the end

splitVars == <<image, chunk_size, rootfs_file, rooted_fs_stats, part_files, ota_md5_name,
               ota_md5_file, chunk_number, prior_md5, chunk, chunk_hash, offset>>
assembleVars == <<rootfs_parts, part_i, assembled>>

otaVars == <<ota_file, ota_update_data, ota_version, ota_raised, stock_sections, m_written>>
shadowVars == <<shadow_file, shadow_bak, shadow_i, shadow_raised, root_password_hash,
                etc_ota_info, assets_copied>>

mainVars == <<ok_file, migrated, ota_config_file, rooted_image>>

vars == <<pc, splitVars, assembleVars, otaVars, shadowVars, mainVars>>

----------------------------------------------------------------------------
(* Bounds of the model *)

\* longest image, in bytes
MaxLen == 11
\* largest read window, in bytes (the program reads 1048576 at a time)
MaxChunk == 2

(* Program constants *)

\* the field width of {chunk_number:04d}, scaled from 4 to 1 digit so that an
\* index wider than the field is within reach of the images above
PadWidth == 1

Byte == {0, 1}

Min(a, b) == IF a < b THEN a ELSE b

\* all byte sequences of length 0..n
RECURSIVE SeqsUpTo(_)
SeqsUpTo(n) ==
    IF n = 0 THEN {<<>>}
    ELSE LET shorter == SeqsUpTo(n - 1)
         IN  shorter \cup {Append(s, b) : s \in {t \in shorter : Len(t) = n - 1}, b \in Byte}

Images == SeqsUpTo(MaxLen)

File(data) == [exists |-> TRUE, data |-> data]
NoFile == [exists |-> FALSE, data |-> <<>>]

----------------------------------------------------------------------------
(* hashlib.md5(...).hexdigest(): a digest of the bytes as hex characters.    *)
(* The digest is one hex digit wide here; distinct contents may collide.     *)

RECURSIVE DigestValue(_)
DigestValue(data) ==
    IF data = <<>> THEN 1
    ELSE (3 * DigestValue(SubSeq(data, 1, Len(data) - 1)) + data[Len(data)] + 1) % 16

\* one hex digit as its character: '0'..'9' are 48..57, 'a'..'f' are 97..102
HexChar(d) == IF d < 10 THEN 48 + d ELSE 87 + d

MD5(data) == <<HexChar(DigestValue(data))>>

\* format(n, "04d"): the decimal digits, left-padded with '0' to the field width,
\* and wider than the field when n needs more digits
RECURSIVE Digits(_)
Digits(n) == IF n < 10 THEN <<48 + n>> ELSE Append(Digits(n \div 10), 48 + (n % 10))

RECURSIVE ZeroPad(_, _)
ZeroPad(s, width) == IF Len(s) >= width THEN s ELSE ZeroPad(<<48>> \o s, width)

Format04d(n) == ZeroPad(Digits(n), PadWidth)

\* f"rootfs.squashfs.{chunk_number:04d}.{prior_md5}", without the common
\* "rootfs.squashfs." prefix; '.' is 46
PartName(n, md5) == Format04d(n) \o <<46>> \o md5

----------------------------------------------------------------------------
(* __squash_rooted_fs, after mksquashfs has written rootfs.squashfs *)

\* a stat that takes the size and leaves md5sum as the dict was created, ""
SquashStat_NoDigest(delete_source_tree, ret) ==
    /\ pc = "squash_stat"
    /\ rooted_fs_stats' = [md5sum |-> <<>>, size |-> Len(rootfs_file.data)]
    /\ shadow_file' = IF delete_source_tree THEN <<>> ELSE shadow_file
    /\ etc_ota_info' = IF delete_source_tree THEN "absent" ELSE etc_ota_info
    /\ assets_copied' = IF delete_source_tree THEN FALSE ELSE assets_copied
    /\ pc' = ret
    /\ UNCHANGED <<image, chunk_size, rootfs_file, part_files, ota_md5_name, ota_md5_file,
                   chunk_number, prior_md5, chunk, chunk_hash, offset, assembleVars, otaVars,
                   shadow_bak, shadow_i, shadow_raised, root_password_hash, mainVars>>

\* the digest and the size of the file are taken; if delete_source_tree: the
\* tree is removed
SquashStat(delete_source_tree, ret) ==
    /\ pc = "squash_stat"
    /\ rooted_fs_stats' = [md5sum |-> MD5(rootfs_file.data), size |-> Len(rootfs_file.data)]
    /\ shadow_file' = IF delete_source_tree THEN <<>> ELSE shadow_file
    /\ etc_ota_info' = IF delete_source_tree THEN "absent" ELSE etc_ota_info
    /\ assets_copied' = IF delete_source_tree THEN FALSE ELSE assets_copied
    /\ pc' = ret
    /\ UNCHANGED <<image, chunk_size, rootfs_file, part_files, ota_md5_name, ota_md5_file,
                   chunk_number, prior_md5, chunk, chunk_hash, offset, assembleVars, otaVars,
                   shadow_bak, shadow_i, shadow_raised, root_password_hash, mainVars>>

----------------------------------------------------------------------------
(* __split_rooted_fs *)

\* the with-statement opens both files; chunk_number = 0, prior_md5 = the md5sum
SplitOpen ==
    /\ pc = "split_open"
    /\ ota_md5_name' = rooted_fs_stats.md5sum
    /\ ota_md5_file' = <<>>
    /\ offset' = 0
    /\ chunk_number' = 0
    /\ prior_md5' = rooted_fs_stats.md5sum
    /\ pc' = "split_read"
    /\ UNCHANGED <<image, chunk_size, rootfs_file, rooted_fs_stats, part_files, chunk,
                   chunk_hash, assembleVars, otaVars, shadowVars, mainVars>>

\* rootfs_file.read(n) at the current offset
ReadAt(data, off, n) == SubSeq(data, off + 1, Min(off + n, Len(data)))

\* a split that tests for the end of the file by a short window, after writing it
SplitRead_BreakAfterShort ==
    /\ pc = "split_read"
    /\ LET c == ReadAt(rootfs_file.data, offset, chunk_size)
       IN  /\ chunk' = c
           /\ offset' = offset + Len(c)
           /\ IF chunk_number > 0 /\ Len(chunk) < chunk_size
              THEN pc' = "split_close" /\ UNCHANGED chunk_hash
              ELSE pc' = "split_write" /\ chunk_hash' = MD5(c)
    /\ UNCHANGED <<image, chunk_size, rootfs_file, rooted_fs_stats, part_files, ota_md5_name,
                   ota_md5_file, chunk_number, prior_md5, assembleVars, otaVars, shadowVars, mainVars>>

\* chunk = rootfs_file.read(1048576); if not chunk: break; chunk_hash = md5(chunk)
SplitRead ==
    /\ pc = "split_read"
    /\ LET c == ReadAt(rootfs_file.data, offset, chunk_size)
       IN  /\ chunk' = c
           /\ offset' = offset + Len(c)
           /\ IF c = <<>>
              THEN pc' = "split_close" /\ UNCHANGED chunk_hash
              ELSE pc' = "split_write" /\ chunk_hash' = MD5(c)
    /\ UNCHANGED <<image, chunk_size, rootfs_file, rooted_fs_stats, part_files, ota_md5_name,
                   ota_md5_file, chunk_number, prior_md5, assembleVars, otaVars, shadowVars, mainVars>>

\* a split that names each part after its own digest
SplitWritePart_OwnDigest(dest_dir) ==
    /\ pc = "split_write"
    /\ part_files' = [part_files EXCEPT
                         ![dest_dir] = (PartName(chunk_number, chunk_hash) :> chunk) @@ @]
    /\ chunk_number' = chunk_number + 1
    /\ pc' = "split_append"
    /\ UNCHANGED <<image, chunk_size, rootfs_file, rooted_fs_stats, ota_md5_name,
                   ota_md5_file, prior_md5, chunk, chunk_hash, offset, assembleVars, otaVars, shadowVars, mainVars>>

\* the part file is written under the PRIOR digest; chunk_number += 1
SplitWritePart(dest_dir) ==
    /\ pc = "split_write"
    /\ part_files' = [part_files EXCEPT
                         ![dest_dir] = (PartName(chunk_number, prior_md5) :> chunk) @@ @]
    /\ chunk_number' = chunk_number + 1
    /\ pc' = "split_append"
    /\ UNCHANGED <<image, chunk_size, rootfs_file, rooted_fs_stats, ota_md5_name,
                   ota_md5_file, prior_md5, chunk, chunk_hash, offset, assembleVars, otaVars, shadowVars, mainVars>>

\* a split that records the digest the part was named with
SplitAppendHash_PriorDigest ==
    /\ pc = "split_append"
    /\ ota_md5_file' = Append(ota_md5_file, prior_md5)
    /\ prior_md5' = chunk_hash
    /\ pc' = "split_read"
    /\ UNCHANGED <<image, chunk_size, rootfs_file, rooted_fs_stats, part_files, ota_md5_name,
                   chunk_number, chunk, chunk_hash, offset, assembleVars, otaVars, shadowVars, mainVars>>

\* ota_md5_file.write(f"{chunk_hash}\n"); prior_md5 = chunk_hash
SplitAppendHash ==
    /\ pc = "split_append"
    /\ ota_md5_file' = Append(ota_md5_file, chunk_hash)
    /\ prior_md5' = chunk_hash
    /\ pc' = "split_read"
    /\ UNCHANGED <<image, chunk_size, rootfs_file, rooted_fs_stats, part_files, ota_md5_name,
                   chunk_number, chunk, chunk_hash, offset, assembleVars, otaVars, shadowVars, mainVars>>

\* both files are closed; if delete_squashfs_file: unlink the source
SplitClose(delete_squashfs_file, ret) ==
    /\ pc = "split_close"
    /\ rootfs_file' = IF delete_squashfs_file THEN NoFile ELSE rootfs_file
    /\ pc' = ret
    /\ UNCHANGED <<image, chunk_size, rooted_fs_stats, part_files, ota_md5_name, ota_md5_file,
                   chunk_number, prior_md5, chunk, chunk_hash, offset, assembleVars, otaVars, shadowVars, mainVars>>

----------------------------------------------------------------------------
(* __assemble_rootfs *)

\* str < str of Python: the first differing character decides, a proper prefix is less
LexLess(a, b) ==
    \/ \E i \in 1..Min(Len(a), Len(b)) :
          /\ a[i] < b[i]
          /\ \A j \in 1..(i - 1) : a[j] = b[j]
    \/ /\ Len(a) < Len(b)
       /\ \A j \in 1..Len(a) : a[j] = b[j]

\* list.sort() of the globbed names
RECURSIVE SortNames(_)
SortNames(names) ==
    IF names = {} THEN <<>>
    ELSE LET least == CHOOSE x \in names : \A y \in names : x = y \/ LexLess(x, y)
         IN  <<least>> \o SortNames(names \ {least})

\* rootfs_parts = list(glob("rootfs.squashfs.*.*")); rootfs_parts.sort(); open(..., "wb")
AssembleList(rootfs_file_path) ==
    /\ pc = "assemble_list"
    /\ rootfs_parts' = SortNames(DOMAIN part_files[rootfs_file_path])
    /\ assembled' = File(<<>>)
    /\ part_i' = 1
    /\ pc' = "assemble_copy"
    /\ UNCHANGED <<splitVars, otaVars, shadowVars, mainVars>>

\* for part in rootfs_parts: shutil.copyfileobj(file_chunk, rootfs_file)
AssembleCopy(rootfs_file_path) ==
    /\ pc = "assemble_copy"
    /\ IF part_i <= Len(rootfs_parts)
       THEN /\ assembled' = File(assembled.data \o part_files[rootfs_file_path][rootfs_parts[part_i]])
            /\ part_i' = part_i + 1
            /\ pc' = "assemble_copy"
       ELSE /\ pc' = "assemble_delete"
            /\ UNCHANGED <<assembled, part_i>>
    /\ UNCHANGED <<splitVars, rootfs_parts, otaVars, shadowVars, mainVars>>

\* if delete_parts: unlink every part
AssembleDelete(rootfs_file_path, delete_parts, ret) ==
    /\ pc = "assemble_delete"
    /\ part_files' =
          IF delete_parts
          THEN [part_files EXCEPT
                  ![rootfs_file_path] =
                      [n \in DOMAIN @ \ {rootfs_parts[i] : i \in 1..Len(rootfs_parts)} |-> @[n]]]
          ELSE part_files
    /\ pc' = ret
    /\ UNCHANGED <<image, chunk_size, rootfs_file, rooted_fs_stats, ota_md5_name, ota_md5_file,
                   chunk_number, prior_md5, chunk, chunk_hash, offset, assembleVars, otaVars, shadowVars, mainVars>>

----------------------------------------------------------------------------
(* Text operations of Python used by utils/otatools.py and utils/prepareroot.py *)

\* characters
LF == 10
CR == 13
SPACE == 32
COLON == 58
EQUALS == 61

\* the characters str.strip() removes
Whitespace == {9, LF, 11, 12, CR, 28, 29, 30, 31, SPACE}
\* the characters str.splitlines() breaks a line at
LineBreaks == {LF, 11, 12, CR, 28, 29, 30}

RECURSIVE LStrip(_)
LStrip(s) == IF s # <<>> /\ Head(s) \in Whitespace THEN LStrip(Tail(s)) ELSE s

RECURSIVE RStrip(_)
RStrip(s) ==
    IF s # <<>> /\ s[Len(s)] \in Whitespace THEN RStrip(SubSeq(s, 1, Len(s) - 1)) ELSE s

\* str.strip()
Strip(s) == RStrip(LStrip(s))

\* the first position at or after i that sep occurs at in s, 0 when there is none
RECURSIVE FirstAtFrom(_, _, _)
FirstAtFrom(s, sep, i) ==
    IF i + Len(sep) - 1 > Len(s) THEN 0
    ELSE IF \A k \in 1..Len(sep) : s[i + k - 1] = sep[k] THEN i
    ELSE FirstAtFrom(s, sep, i + 1)

FirstAt(s, sep) == FirstAtFrom(s, sep, 1)

\* str.split(sep)
RECURSIVE SplitOn(_, _)
SplitOn(s, sep) ==
    LET i == FirstAt(s, sep)
    IN  IF i = 0 THEN <<s>>
        ELSE <<SubSeq(s, 1, i - 1)>> \o SplitOn(SubSeq(s, i + Len(sep), Len(s)), sep)

\* str.splitlines(): no line for the empty text, none after a final line break
RECURSIVE FirstBreakFrom(_, _)
FirstBreakFrom(s, i) ==
    IF i > Len(s) THEN 0 ELSE IF s[i] \in LineBreaks THEN i ELSE FirstBreakFrom(s, i + 1)

RECURSIVE SplitLines(_)
SplitLines(s) ==
    IF s = <<>> THEN <<>>
    ELSE LET i == FirstBreakFrom(s, 1)
         IN  IF i = 0 THEN <<s>>
             ELSE LET w == IF s[i] = CR /\ i < Len(s) /\ s[i + 1] = LF THEN 2 ELSE 1
                  IN  <<SubSeq(s, 1, i - 1)>> \o SplitLines(SubSeq(s, i + w, Len(s)))

\* str.startswith(prefix)
StartsWith(s, prefix) == Len(s) >= Len(prefix) /\ SubSeq(s, 1, Len(prefix)) = prefix

\* str.removeprefix(prefix)
RemovePrefix(s, prefix) ==
    IF StartsWith(s, prefix) THEN SubSeq(s, Len(prefix) + 1, Len(s)) ELSE s

\* sep.join(parts)
RECURSIVE Join(_, _)
Join(parts, sep) ==
    IF parts = <<>> THEN <<>>
    ELSE IF Len(parts) = 1 THEN parts[1]
    ELSE parts[1] \o sep \o Join(Tail(parts), sep)

----------------------------------------------------------------------------
(* utils/otatools.py: the ota_update.in codec *)

\* "img_", "type", "name", "size", "md5", "ota_version"
ImgPrefix == <<105, 109, 103, 95>>
KeyType == <<116, 121, 112, 101>>
KeyName == <<110, 97, 109, 101>>
KeySize == <<115, 105, 122, 101>>
KeyMd5 == <<109, 100, 53>>
KeyOtaVersion == <<111, 116, 97, 95, 118, 101, 114, 115, 105, 111, 110>>
\* "rootfs", "current_version"
RootfsType == <<114, 111, 111, 116, 102, 115>>
KeyCurrentVersion == <<99, 117, 114, 114, 101, 110, 116, 95, 118, 101, 114, 115, 105, 111, 110>>

\* a value of the dict: a str, or the int main stores as the size
StrVal(s) == [t |-> "str", s |-> s, n |-> 0]
IntVal(n) == [t |-> "int", s |-> <<>>, n |-> n]

\* the text an f-string gives for a value
FormatValue(v) == IF v.t = "int" THEN Digits(v.n) ELSE v.s

EmptyDict == [k \in {} |-> StrVal(<<>>)]

\* d[key] = val on an insertion-ordered dict, kept as a sequence of items: an
\* existing key keeps its place and takes the new value
DictSet(d, key, val) ==
    IF \E i \in 1..Len(d) : d[i].key = key
    THEN [i \in 1..Len(d) |-> IF d[i].key = key THEN [key |-> key, val |-> val] ELSE d[i]]
    ELSE Append(d, [key |-> key, val |-> val])

\* the loop over the lines of one section: entry = line.split("=");
\* section[entry[0].removeprefix("img_")] = entry[1]
RECURSIVE SectionOf(_, _)
SectionOf(contents, section) ==
    IF contents = <<>> THEN [raised |-> "none", section |-> section]
    ELSE LET entry == SplitOn(Head(contents), <<EQUALS>>)
         IN  IF Len(entry) < 2 THEN [raised |-> "IndexError", section |-> section]
             ELSE SectionOf(Tail(contents),
                            (RemovePrefix(entry[1], ImgPrefix) :> StrVal(entry[2])) @@ section)

\* the loop over the sections: only a section of more than one line is taken;
\* parsed[section["type"]] = section
RECURSIVE ParseSections(_, _)
ParseSections(raw_contents, parsed) ==
    IF raw_contents = <<>> THEN [raised |-> "none", parsed |-> parsed]
    ELSE LET contents == SplitLines(Head(raw_contents))
         IN  IF Len(contents) > 1
             THEN LET r == SectionOf(contents, EmptyDict)
                  IN  IF r.raised # "none" THEN [raised |-> r.raised, parsed |-> parsed]
                      ELSE IF KeyType \notin DOMAIN r.section
                      THEN [raised |-> "KeyError", parsed |-> parsed]
                      ELSE ParseSections(Tail(raw_contents),
                                         DictSet(parsed, r.section[KeyType], r.section))
             ELSE ParseSections(Tail(raw_contents), parsed)

\* OtaTools.parse_ota_update_in: read_text().strip().split("\n\n"), then the loop
ParseOtaUpdateIn(text) == ParseSections(SplitOn(Strip(text), <<LF, LF>>), <<>>)

\* a writer that leaves out the blank line after a section
SectionText_NoBlankLine(section) ==
    ImgPrefix \o KeyType \o <<EQUALS>> \o FormatValue(section[KeyType]) \o <<LF>>
    \o ImgPrefix \o KeyName \o <<EQUALS>> \o FormatValue(section[KeyName]) \o <<LF>>
    \o ImgPrefix \o KeySize \o <<EQUALS>> \o FormatValue(section[KeySize]) \o <<LF>>
    \o ImgPrefix \o KeyMd5 \o <<EQUALS>> \o FormatValue(section[KeyMd5]) \o <<LF>>

\* the f-string of one section; a missing field raises KeyError
SectionText(section) ==
    ImgPrefix \o KeyType \o <<EQUALS>> \o FormatValue(section[KeyType]) \o <<LF>>
    \o ImgPrefix \o KeyName \o <<EQUALS>> \o FormatValue(section[KeyName]) \o <<LF>>
    \o ImgPrefix \o KeySize \o <<EQUALS>> \o FormatValue(section[KeySize]) \o <<LF>>
    \o ImgPrefix \o KeyMd5 \o <<EQUALS>> \o FormatValue(section[KeyMd5]) \o <<LF>>
    \o <<LF>>

RECURSIVE WriteSections(_, _)
WriteSections(ota_info, text) ==
    IF ota_info = <<>> THEN [raised |-> "none", text |-> text]
    ELSE LET section == Head(ota_info).val
         IN  IF {KeyType, KeyName, KeySize, KeyMd5} \subseteq DOMAIN section
             THEN WriteSections(Tail(ota_info), text \o SectionText(section))
             ELSE [raised |-> "KeyError", text |-> text]

\* OtaTools.write_ota_update_in: the version line, a blank line, then the sections
WriteOtaUpdateIn(version, ota_info) ==
    WriteSections(ota_info, KeyOtaVersion \o <<EQUALS>> \o version \o <<LF>> \o <<LF>>)

\* ota_update_data = OtaTools.parse_ota_update_in(...)
OtaParse(ota_file_location, ret) ==
    /\ pc = "ota_parse"
    /\ LET r == ParseOtaUpdateIn(ota_file[ota_file_location].data)
       IN  /\ ota_raised' = r.raised
           /\ ota_update_data' = IF r.raised = "none" THEN r.parsed ELSE ota_update_data
           /\ pc' = IF r.raised = "none" THEN ret ELSE "raised"
    /\ UNCHANGED <<ota_file, ota_version, stock_sections, m_written,
                   splitVars, assembleVars, shadowVars, mainVars>>

\* OtaTools.write_ota_update_in(..., rooted_version, ota_update_data)
OtaWrite(ota_file_location, ret) ==
    /\ pc = "ota_write"
    /\ LET r == WriteOtaUpdateIn(ota_version, ota_update_data)
       IN  /\ ota_raised' = r.raised
           /\ ota_file' = [ota_file EXCEPT ![ota_file_location] = File(r.text)]
           /\ pc' = IF r.raised = "none" THEN ret ELSE "raised"
    /\ m_written' = ota_update_data
    /\ UNCHANGED <<ota_update_data, ota_version, stock_sections,
                   splitVars, assembleVars, shadowVars, mainVars>>

----------------------------------------------------------------------------
(* utils/prepareroot.py: PrepareRoot.customize_rootfs *)

\* "root"
Root == <<114, 111, 111, 116>>

\* the lines a file object iterates over: each with its line feed, the last
\* possibly without
RECURSIVE ReadLines(_)
ReadLines(text) ==
    IF text = <<>> THEN <<>>
    ELSE LET i == FirstAt(text, <<LF>>)
         IN  IF i = 0 THEN <<text>>
             ELSE <<SubSeq(text, 1, i)>> \o ReadLines(SubSeq(text, i + 1, Len(text)))

\* __fix_ota_info: the rendered template is written to etc/ota_info
CustomizeFixOtaInfo ==
    /\ pc = "fix_ota_info"
    /\ etc_ota_info' = "rendered"
    /\ pc' = "add_files"
    /\ UNCHANGED <<shadow_file, shadow_bak, shadow_i, shadow_raised, root_password_hash,
                   assets_copied, splitVars, assembleVars, otaVars, mainVars>>

\* __add_files: every file of assets/ is copied into the tree
CustomizeAddFiles ==
    /\ pc = "add_files"
    /\ assets_copied' = TRUE
    /\ pc' = "set_password"
    /\ UNCHANGED <<shadow_file, shadow_bak, shadow_i, shadow_raised, root_password_hash,
                   etc_ota_info, splitVars, assembleVars, otaVars, mainVars>>

\* fileinput.input(..., inplace=True): the file is moved to a backup that is
\* read line by line, and what is printed goes to a new file of its name
SetPasswordOpen ==
    /\ pc = "set_password"
    /\ shadow_bak' = ReadLines(shadow_file)
    /\ shadow_file' = <<>>
    /\ shadow_i' = 1
    /\ pc' = "set_password_line"
    /\ UNCHANGED <<shadow_raised, root_password_hash, etc_ota_info, assets_copied,
                   splitVars, assembleVars, otaVars, mainVars>>

\* what one line is printed as; auth_parts[1] = ... raises IndexError on a
\* line with no ':'
PasswordLine(line, hash) ==
    IF StartsWith(line, Root)
    THEN LET auth_parts == SplitOn(line, <<COLON>>)
         IN  IF Len(auth_parts) < 2 THEN [raised |-> "IndexError", text |-> <<>>]
             ELSE [raised |-> "none",
                   text |-> Join([auth_parts EXCEPT ![2] = hash], <<COLON>>)]
    ELSE [raised |-> "none", text |-> line]

\* one pass of: for line in shadow_file
SetPasswordLine ==
    /\ pc = "set_password_line"
    /\ shadow_i <= Len(shadow_bak)
    /\ LET r == PasswordLine(shadow_bak[shadow_i], root_password_hash)
       IN  /\ shadow_raised' = r.raised
           /\ shadow_file' = shadow_file \o r.text
           /\ pc' = IF r.raised = "none" THEN "set_password_line" ELSE "raised"
    /\ shadow_i' = shadow_i + 1
    /\ UNCHANGED <<shadow_bak, root_password_hash, etc_ota_info, assets_copied,
                   splitVars, assembleVars, otaVars, mainVars>>

\* the loop ends, the with-statement closes the files
SetPasswordClose(ret) ==
    /\ pc = "set_password_line"
    /\ shadow_i > Len(shadow_bak)
    /\ pc' = ret
    /\ UNCHANGED <<shadowVars, splitVars, assembleVars, otaVars, mainVars>>

----------------------------------------------------------------------------
(* Split followed by assembly of the directory the split wrote *)

EmptyDir == [n \in {} |-> <<>>]

\* stock_firmware_files_path and rooted_firmware_files_path of main
StockPath == "stock"
RootedPath == "rooted"
Paths == {StockPath, RootedPath}

SplitLocalsIdle ==
    /\ image = <<>>
    /\ rootfs_file = NoFile
    /\ rooted_fs_stats = [md5sum |-> <<>>, size |-> 0]
    /\ ota_md5_name = <<>>
    /\ ota_md5_file = <<>>
    /\ chunk_number = 0
    /\ prior_md5 = <<>>
    /\ chunk = <<>>
    /\ chunk_hash = <<>>
    /\ offset = 0

SplitIdle ==
    /\ SplitLocalsIdle
    /\ chunk_size = 1
    /\ part_files = [p \in Paths |-> EmptyDir]

MainIdle ==
    /\ ok_file = FALSE
    /\ migrated = FALSE
    /\ ota_config_file = NoFile
    /\ rooted_image = NoFile

AssembleIdle ==
    /\ rootfs_parts = <<>>
    /\ part_i = 1
    /\ assembled = NoFile

OtaIdle ==
    /\ ota_file = [p \in Paths |-> NoFile]
    /\ ota_update_data = <<>>
    /\ ota_version = <<>>
    /\ ota_raised = "none"
    /\ stock_sections = <<>>
    /\ m_written = <<>>

ShadowIdle ==
    /\ shadow_file = <<>>
    /\ shadow_bak = <<>>
    /\ shadow_i = 1
    /\ shadow_raised = "none"
    /\ root_password_hash = <<>>
    /\ etc_ota_info = "stock"
    /\ assets_copied = FALSE

Init ==
    /\ image \in Images
    /\ chunk_size \in 1..MaxChunk
    /\ rootfs_file = File(image)
    /\ pc = "squash_stat"
    /\ rooted_fs_stats = [md5sum |-> <<>>, size |-> 0]
    /\ part_files = [p \in Paths |-> EmptyDir]
    /\ ota_md5_name = <<>>
    /\ ota_md5_file = <<>>
    /\ chunk_number = 0
    /\ prior_md5 = <<>>
    /\ chunk = <<>>
    /\ chunk_hash = <<>>
    /\ offset = 0
    /\ AssembleIdle
    /\ OtaIdle
    /\ ShadowIdle
    /\ MainIdle

Next ==
    \/ SquashStat(TRUE, "split_open")
    \/ SplitOpen
    \/ SplitRead
    \/ SplitWritePart(RootedPath)
    \/ SplitAppendHash
    \/ SplitClose(TRUE, "assemble_list")
    \/ AssembleList(RootedPath)
    \/ AssembleCopy(RootedPath)
    \/ AssembleDelete(RootedPath, TRUE, "done")

Spec == Init /\ [][Next]_vars

----------------------------------------------------------------------------
(* The manifest codec on its own: a dict is written and read back, or a stock *)
(* ota_update.in is read                                                      *)

\* most partition sections of a manifest
MaxEntries == 2

\* "6.1", "1.1"
RootedVersion == <<54, 46, 49>>
StockVersion == <<49, 46, 49>>

Entry(type, name, size, md5) ==
    (KeyType :> type) @@ (KeyName :> name) @@ (KeySize :> size) @@ (KeyMd5 :> md5)

\* "", "a", "b"
TypeValues == {StrVal(<<>>), StrVal(<<97>>), StrVal(<<98>>)}
\* "", "x"
NameValues == {StrVal(<<>>), StrVal(<<120>>)}
\* "", "7"
SizeValues == {StrVal(<<>>), StrVal(<<55>>)}
\* "", "c"
Md5Values == {StrVal(<<>>), StrVal(<<99>>)}

\* sections the line format does not carry: a name "a=b", the int 7 as the size
\* (as main stores it), an md5 "c " that ends in a space
OddEntries ==
    {Entry(StrVal(<<97>>), StrVal(<<97, EQUALS, 98>>), StrVal(<<55>>), StrVal(<<99>>)),
     Entry(StrVal(<<98>>), StrVal(<<120>>), IntVal(7), StrVal(<<99>>)),
     Entry(StrVal(<<98>>), StrVal(<<120>>), StrVal(<<55>>), StrVal(<<99, SPACE>>))}

Entries ==
    {Entry(t, n, z, m) : t \in TypeValues, n \in NameValues, z \in SizeValues, m \in Md5Values}
        \cup OddEntries

\* the dicts of up to n sections, each under its type as the key
RECURSIVE ManifestsUpTo(_)
ManifestsUpTo(n) ==
    IF n = 0 THEN {<<>>}
    ELSE LET shorter == ManifestsUpTo(n - 1)
         IN  shorter \cup
             UNION {{Append(m, [key |-> e[KeyType], val |-> e]) :
                        e \in {y \in Entries : \A i \in 1..(n - 1) : m[i].key # y[KeyType]}} :
                    m \in {x \in shorter : Len(x) = n - 1}}

Manifests == ManifestsUpTo(MaxEntries)

\* a section of a stock file: of its four lines, those from `first` to `lines`
\* are present; types "a", "rootfs"; names "x", "y"; size "1"; md5 "c"
\* one section has no img_type line: its img_name and img_size lines alone
StockSections ==
    [type : {<<97>>, RootfsType}, name : {<<120>>, <<121>>}, size : {<<49>>}, md5 : {<<99>>},
     first : {1}, lines : 1..4]
        \cup {[type |-> <<97>>, name |-> <<120>>, size |-> <<49>>, md5 |-> <<99>>,
               first |-> 2, lines |-> 3]}

\* a section with its four lines
FullSection(sec) == sec.first = 1 /\ sec.lines = 4

RECURSIVE SectionListsUpTo(_)
SectionListsUpTo(n) ==
    IF n = 0 THEN {<<>>}
    ELSE LET shorter == SectionListsUpTo(n - 1)
         IN  shorter \cup {Append(l, x) : l \in {y \in shorter : Len(y) = n - 1},
                                          x \in StockSections}

StockSectionLines(sec) ==
    SubSeq(<<ImgPrefix \o KeyType \o <<EQUALS>> \o sec.type,
             ImgPrefix \o KeyName \o <<EQUALS>> \o sec.name,
             ImgPrefix \o KeySize \o <<EQUALS>> \o sec.size,
             ImgPrefix \o KeyMd5 \o <<EQUALS>> \o sec.md5>>, sec.first, sec.lines)

\* the file format: the ota_version line, a blank line, and every section
\* followed by a blank line
RECURSIVE StockSectionsText(_)
StockSectionsText(sections) ==
    IF sections = <<>> THEN <<>>
    ELSE Join(StockSectionLines(Head(sections)), <<LF>>) \o <<LF, LF>>
         \o StockSectionsText(Tail(sections))

StockText(version, sections) ==
    KeyOtaVersion \o <<EQUALS>> \o version \o <<LF, LF>> \o StockSectionsText(sections)

InitOta ==
    /\ SplitIdle
    /\ AssembleIdle
    /\ ShadowIdle
    /\ MainIdle
    /\ ota_raised = "none"
    /\ m_written = <<>>
    /\ ota_version = RootedVersion
    /\ \/ /\ pc = "ota_write"
          /\ ota_update_data \in Manifests
          /\ stock_sections = <<>>
          /\ ota_file = [p \in Paths |-> NoFile]
       \/ /\ pc = "ota_parse"
          /\ ota_update_data = <<>>
          /\ stock_sections \in SectionListsUpTo(MaxEntries)
          /\ ota_file = [p \in Paths |-> IF p = RootedPath
                                            THEN File(StockText(StockVersion, stock_sections))
                                            ELSE NoFile]

NextOta ==
    \/ OtaWrite(RootedPath, "ota_parse")
    \/ OtaParse(RootedPath, "ota_done")

SpecOta == InitOta /\ [][NextOta]_vars

----------------------------------------------------------------------------
(* customize_rootfs on a tree with a given etc/shadow *)

\* most lines of etc/shadow
MaxLines == 3

\* "root:x:1\n", "roots:y:2\n", "bin:z:3\n", "root\n", "root:x\n", "root:q:9"
ShadowLines ==
    {<<114, 111, 111, 116, COLON, 120, COLON, 49, LF>>,
     <<114, 111, 111, 116, 115, COLON, 121, COLON, 50, LF>>,
     <<98, 105, 110, COLON, 122, COLON, 51, LF>>,
     <<114, 111, 111, 116, LF>>,
     <<114, 111, 111, 116, COLON, 120, LF>>,
     <<114, 111, 111, 116, COLON, 113, COLON, 57>>}

RECURSIVE ShadowTextsUpTo(_)
ShadowTextsUpTo(n) ==
    IF n = 0 THEN {<<>>}
    ELSE {<<>>} \cup {l \o t : l \in ShadowLines, t \in ShadowTextsUpTo(n - 1)}

\* "$5$H"
PasswordHash == <<36, 53, 36, 72>>

InitShadow ==
    /\ SplitIdle
    /\ AssembleIdle
    /\ OtaIdle
    /\ MainIdle
    /\ pc = "fix_ota_info"
    /\ shadow_file \in ShadowTextsUpTo(MaxLines)
    /\ shadow_bak = <<>>
    /\ shadow_i = 1
    /\ shadow_raised = "none"
    /\ root_password_hash = PasswordHash
    /\ etc_ota_info = "stock"
    /\ assets_copied = FALSE

NextShadow ==
    \/ CustomizeFixOtaInfo
    \/ CustomizeAddFiles
    \/ SetPasswordOpen
    \/ SetPasswordLine
    \/ SetPasswordClose("customized")

SpecShadow == InitShadow /\ [][NextShadow]_vars

----------------------------------------------------------------------------
(* __assemble_rootfs on a directory of part files as found *)

\* largest index of a part file found
MaxIndex == 2

\* digests "4" and "5" in the names, one byte of content
PartDigests == {<<52>>, <<53>>}
PartContents == {<<0>>, <<1>>}

StockPartNames == {PartName(i, d) : i \in 0..MaxIndex, d \in PartDigests}
StockDirs == UNION {[names -> PartContents] : names \in SUBSET StockPartNames}

InitAssemble ==
    /\ pc = "assemble_list"
    /\ SplitLocalsIdle
    /\ chunk_size = 1
    /\ \E d \in StockDirs : part_files = [p \in Paths |-> IF p = StockPath THEN d ELSE EmptyDir]
    /\ AssembleIdle
    /\ OtaIdle
    /\ ShadowIdle
    /\ MainIdle

NextAssemble ==
    \/ AssembleList(StockPath)
    \/ AssembleCopy(StockPath)
    \/ AssembleDelete(StockPath, TRUE, "assembled")

SpecAssemble == InitAssemble /\ [][NextAssemble]_vars

----------------------------------------------------------------------------
(* main: the pipeline from the extracted stock firmware to the new image *)

\* longest image mksquashfs gives in a run of the pipeline
MainMaxLen == 3

MainImages == SeqsUpTo(MainMaxLen)

\* stock manifests of full sections
MainSectionLists == {l \in SectionListsUpTo(MaxEntries) : \A i \in 1..Len(l) : FullSection(l[i])}

\* the stock part files: two parts, or the first of them alone
MainStockDirs ==
    {(PartName(0, <<52>>) :> <<0>>) @@ (PartName(1, <<53>>) :> <<1>>),
     (PartName(0, <<52>>) :> <<0>>)}

\* etc/shadow of the stock tree: "root:x:1\nbin:z:3\n", "bin:z:3\n", "root\n"
MainShadowTexts ==
    {<<114, 111, 111, 116, COLON, 120, COLON, 49, LF, 98, 105, 110, COLON, 122, COLON, 51, LF>>,
     <<98, 105, 110, COLON, 122, COLON, 51, LF>>,
     <<114, 111, 111, 116, LF>>}

\* __extract_firmware: the archive is unpacked into the working directory
MainExtract ==
    /\ pc = "extract_firmware"
    /\ \E secs \in MainSectionLists, parts \in MainStockDirs :
          /\ stock_sections' = secs
          /\ ota_file' = [ota_file EXCEPT ![StockPath] = File(StockText(StockVersion, secs))]
          /\ part_files' = [part_files EXCEPT ![StockPath] = parts]
    /\ pc' = "mkdir"
    /\ UNCHANGED <<image, chunk_size, rootfs_file, rooted_fs_stats, ota_md5_name, ota_md5_file,
                   chunk_number, prior_md5, chunk, chunk_hash, offset, assembleVars,
                   ota_update_data, ota_version, ota_raised, m_written, shadowVars, mainVars>>

\* Path.mkdir(rooted_firmware_files_path); the .ok file is written
MainCreateStructure ==
    /\ pc = "mkdir"
    /\ ok_file' = TRUE
    /\ pc' = "ota_parse"
    /\ UNCHANGED <<splitVars, assembleVars, otaVars, shadowVars,
                   migrated, ota_config_file, rooted_image>>

\* __migrate_firmware_files
MainMigrate ==
    /\ pc = "migrate"
    /\ migrated' = TRUE
    /\ pc' = "assemble_list"
    /\ UNCHANGED <<splitVars, assembleVars, otaVars, shadowVars,
                   ok_file, ota_config_file, rooted_image>>

\* __unsquash_rootfs(..., True): unsquashfs gives the tree, the image file is unlinked
MainUnsquash ==
    /\ pc = "unsquash"
    /\ \E text \in MainShadowTexts : shadow_file' = text
    /\ assembled' = NoFile
    /\ pc' = "fix_ota_info"
    /\ UNCHANGED <<splitVars, rootfs_parts, part_i, otaVars, shadow_bak, shadow_i,
                   shadow_raised, root_password_hash, etc_ota_info, assets_copied, mainVars>>

\* mksquashfs writes working_dir/rootfs.squashfs
MainMksquashfs ==
    /\ pc = "mksquashfs"
    /\ \E img \in MainImages :
          /\ image' = img
          /\ rootfs_file' = File(img)
    /\ pc' = "squash_stat"
    /\ UNCHANGED <<chunk_size, rooted_fs_stats, part_files, ota_md5_name, ota_md5_file,
                   chunk_number, prior_md5, chunk, chunk_hash, offset, assembleVars, otaVars,
                   shadowVars, mainVars>>

\* an update that stores the new size and md5 in every section of the dict
MainUpdateOta_EverySection ==
    /\ pc = "update_ota"
    /\ IF \E i \in 1..Len(ota_update_data) : ota_update_data[i].key = StrVal(RootfsType)
       THEN /\ ota_update_data' =
                  [i \in 1..Len(ota_update_data) |->
                      [ota_update_data[i] EXCEPT
                          !.val = (KeySize :> IntVal(rooted_fs_stats.size))
                                  @@ (KeyMd5 :> StrVal(rooted_fs_stats.md5sum)) @@ @]]
            /\ pc' = "ota_write"
            /\ UNCHANGED ota_raised
       ELSE /\ ota_raised' = "KeyError"
            /\ pc' = "raised"
            /\ UNCHANGED ota_update_data
    /\ UNCHANGED <<ota_file, ota_version, stock_sections, m_written,
                   splitVars, assembleVars, shadowVars, mainVars>>

\* ota_update_data["rootfs"]["size"] = ...; ota_update_data["rootfs"]["md5"] = ...
\* KeyError when the stock manifest has no rootfs section
MainUpdateOta ==
    /\ pc = "update_ota"
    /\ IF \E i \in 1..Len(ota_update_data) : ota_update_data[i].key = StrVal(RootfsType)
       THEN /\ ota_update_data' =
                  [i \in 1..Len(ota_update_data) |->
                      IF ota_update_data[i].key = StrVal(RootfsType)
                      THEN [ota_update_data[i] EXCEPT
                              !.val = (KeySize :> IntVal(rooted_fs_stats.size))
                                      @@ (KeyMd5 :> StrVal(rooted_fs_stats.md5sum)) @@ @]
                      ELSE ota_update_data[i]]
            /\ pc' = "ota_write"
            /\ UNCHANGED ota_raised
       ELSE /\ ota_raised' = "KeyError"
            /\ pc' = "raised"
            /\ UNCHANGED ota_update_data
    /\ UNCHANGED <<ota_file, ota_version, stock_sections, m_written,
                   splitVars, assembleVars, shadowVars, mainVars>>

\* OtaTools.write_ota_config_in
MainWriteOtaConfig ==
    /\ pc = "ota_config_write"
    /\ ota_config_file' = File(KeyCurrentVersion \o <<EQUALS>> \o ota_version \o <<LF>>)
    /\ pc' = "split_open"
    /\ UNCHANGED <<splitVars, assembleVars, otaVars, shadowVars, ok_file, migrated, rooted_image>>

\* py7zr writeall: the rooted directory goes into the image file
MainArchive ==
    /\ pc = "archive"
    /\ rooted_image' = [exists |-> TRUE,
                        data |-> [ota_update_in |-> ota_file[RootedPath],
                                  ota_config_in |-> ota_config_file,
                                  parts |-> part_files[RootedPath],
                                  ota_md5_name |-> ota_md5_name,
                                  ota_md5 |-> ota_md5_file,
                                  ok |-> ok_file]]
    /\ pc' = "cleanup"
    /\ UNCHANGED <<splitVars, assembleVars, otaVars, shadowVars, ok_file, migrated,
                   ota_config_file>>

\* shutil.rmtree(working_dir)
MainCleanup ==
    /\ pc = "cleanup"
    /\ part_files' = [p \in Paths |-> EmptyDir]
    /\ ota_file' = [p \in Paths |-> NoFile]
    /\ ota_md5_name' = <<>>
    /\ ota_md5_file' = <<>>
    /\ ota_config_file' = NoFile
    /\ ok_file' = FALSE
    /\ migrated' = FALSE
    /\ pc' = "done"
    /\ UNCHANGED <<image, chunk_size, rootfs_file, rooted_fs_stats, chunk_number, prior_md5,
                   chunk, chunk_hash, offset, assembleVars, ota_update_data, ota_version,
                   ota_raised, stock_sections, m_written, shadowVars, rooted_image>>

\* the process is interrupted from outside; the files stay as they are
MainAbort ==
    /\ pc \notin {"done", "raised", "aborted"}
    /\ pc' = "aborted"
    /\ UNCHANGED <<splitVars, assembleVars, otaVars, shadowVars, mainVars>>

InitMain ==
    /\ pc = "extract_firmware"
    /\ SplitLocalsIdle
    /\ chunk_size \in 1..MaxChunk
    /\ part_files = [p \in Paths |-> EmptyDir]
    /\ AssembleIdle
    /\ ota_file = [p \in Paths |-> NoFile]
    /\ ota_update_data = <<>>
    /\ ota_version = RootedVersion
    /\ ota_raised = "none"
    /\ stock_sections = <<>>
    /\ m_written = <<>>
    /\ shadow_file = <<>>
    /\ shadow_bak = <<>>
    /\ shadow_i = 1
    /\ shadow_raised = "none"
    /\ root_password_hash = PasswordHash
    /\ etc_ota_info = "stock"
    /\ assets_copied = FALSE
    /\ MainIdle

NextMain ==
    \/ MainExtract
    \/ MainCreateStructure
    \/ OtaParse(StockPath, "migrate")
    \/ MainMigrate
    \/ AssembleList(StockPath)
    \/ AssembleCopy(StockPath)
    \/ AssembleDelete(StockPath, TRUE, "unsquash")
    \/ MainUnsquash
    \/ CustomizeFixOtaInfo
    \/ CustomizeAddFiles
    \/ SetPasswordOpen
    \/ SetPasswordLine
    \/ SetPasswordClose("mksquashfs")
    \/ MainMksquashfs
    \/ SquashStat(TRUE, "update_ota")
    \/ MainUpdateOta
    \/ OtaWrite(RootedPath, "ota_config_write")
    \/ MainWriteOtaConfig
    \/ SplitOpen
    \/ SplitRead
    \/ SplitWritePart(RootedPath)
    \/ SplitAppendHash
    \/ SplitClose(TRUE, "archive")
    \/ MainArchive
    \/ MainCleanup
    \/ MainAbort

SpecMain == InitMain /\ [][NextMain]_vars

----------------------------------------------------------------------------
(* Properties of the split and of the assembly *)

\* the part files the split has written
RootedParts == part_files[RootedPath]

Ceil(s, c) == (s + c - 1) \div c

\* window i (0-based) of an image cut into windows of c bytes
ChunkOf(img, c, i) == SubSeq(img, i * c + 1, Min((i + 1) * c, Len(img)))

\* the fields of a part name: <index>.<digest>
RECURSIVE IndexField(_)
IndexField(name) ==
    IF name = <<>> \/ Head(name) = 46 THEN <<>> ELSE <<Head(name)>> \o IndexField(Tail(name))

DigestField(name) == SubSeq(name, Len(IndexField(name)) + 2, Len(name))

RECURSIVE ParseDec(_)
ParseDec(ds) ==
    IF ds = <<>> THEN 0 ELSE 10 * ParseDec(SubSeq(ds, 1, Len(ds) - 1)) + (ds[Len(ds)] - 48)

IndexOf(name) == ParseDec(IndexField(name))

RECURSIVE SumSizes(_, _)
SumSizes(dir, names) ==
    IF names = {} THEN 0
    ELSE LET n == CHOOSE x \in names : TRUE
         IN  Len(dir[n]) + SumSizes(dir, names \ {n})

SplitRunning == pc \in {"split_read", "split_write", "split_append", "split_close"}
SplitComplete == pc \in {"split_close", "assemble_list"}

\* iterations of the split loop that have run to their end
Processed == IF pc = "split_append" THEN chunk_number - 1 ELSE chunk_number

\* C1: splitting an image and assembling the parts written gives back the image,
\* and the digest-chain file has ceil(S/C) lines.
RoundTrip ==
    pc = "done" =>
        /\ assembled = File(image)
        /\ Len(ota_md5_file) = Ceil(Len(image), chunk_size)

\* C2: the digest in the name of part 0 is the digest of the whole image, the
\* digest in the name of part i > 0 is the digest of the content of part i-1.
ChainedNames ==
    (SplitRunning \/ SplitComplete) =>
        /\ {IndexOf(n) : n \in DOMAIN RootedParts} = 0..(chunk_number - 1)
        /\ \A n \in DOMAIN RootedParts :
              LET i == IndexOf(n)
              IN  /\ RootedParts[n] = ChunkOf(image, chunk_size, i)
                  /\ DigestField(n) = IF i = 0 THEN MD5(image)
                                      ELSE MD5(ChunkOf(image, chunk_size, i - 1))

\* a part whose own digest differs from the digest in its name
ChainedNamesWitness ==
    /\ SplitComplete
    /\ \E n \in DOMAIN RootedParts : IndexOf(n) > 0 /\ DigestField(n) # MD5(RootedParts[n])

\* C3: line i of the digest-chain file is the digest of the content of part i; a
\* line is only ever appended, and the lines are as many as the parts processed.
ChainLinesState ==
    (SplitRunning \/ SplitComplete) =>
        /\ ota_md5_file = [i \in 1..Processed |-> MD5(ChunkOf(image, chunk_size, i - 1))]
        /\ SplitComplete => Len(ota_md5_file) = Cardinality(DOMAIN RootedParts)

ChainLinesStep ==
    \/ ota_md5_file' = ota_md5_file
    \/ /\ Len(ota_md5_file') = Len(ota_md5_file) + 1
       /\ SubSeq(ota_md5_file', 1, Len(ota_md5_file)) = ota_md5_file
       /\ Len(ota_md5_file') = chunk_number'

ChainLines == []ChainLinesState /\ [][ChainLinesStep]_vars

ChainLinesWitness ==
    /\ SplitComplete
    /\ Len(ota_md5_file) >= 2
    /\ ota_md5_file[1] # ota_md5_file[2]

\* C4: no part is empty: every part but the last has chunk_size bytes, the last
\* has 1..chunk_size, the sizes sum to the size of the image, and an image of a
\* whole number of windows gives exactly that many parts.
NoEmptyChunk ==
    (SplitRunning \/ SplitComplete) =>
        /\ \A n \in DOMAIN RootedParts :
              /\ Len(RootedParts[n]) \in 1..chunk_size
              /\ IndexOf(n) < Cardinality(DOMAIN RootedParts) - 1 => Len(RootedParts[n]) = chunk_size
        /\ SplitComplete =>
              /\ SumSizes(RootedParts, DOMAIN RootedParts) = Len(image)
              /\ Cardinality(DOMAIN RootedParts) = Ceil(Len(image), chunk_size)
              /\ Len(image) % chunk_size = 0 =>
                    Cardinality(DOMAIN RootedParts) = Len(image) \div chunk_size

\* the split has ended on an image of a whole number of windows, more than one byte each
NoEmptyChunkWitness ==
    /\ SplitComplete
    /\ chunk_size > 1
    /\ Len(image) > chunk_size
    /\ Len(image) % chunk_size = 0

----------------------------------------------------------------------------
(* Properties of the manifest codec *)

\* a field the file format can carry: a str with no '=' and no line break in it,
\* and no whitespace at either end
WellFormedValue(v) ==
    /\ v.t = "str"
    /\ \A i \in 1..Len(v.s) : v.s[i] \notin LineBreaks \cup {EQUALS}
    /\ Strip(v.s) = v.s

\* a dict of sections with their four fields, each under its type, no type twice
WellFormed(m) ==
    /\ \A i \in 1..Len(m) :
          /\ DOMAIN m[i].val = {KeyType, KeyName, KeySize, KeyMd5}
          /\ m[i].key = m[i].val[KeyType]
          /\ \A k \in DOMAIN m[i].val : WellFormedValue(m[i].val[k])
    /\ \A i, j \in 1..Len(m) : m[i].key = m[j].key => i = j

WrittenThenParsed == pc \in {"ota_done", "raised"} /\ m_written # <<>>

\* C5: a well-formed manifest of at least one section, written and parsed back,
\* is returned equal: the same sections with the same fields in the same order.
ManifestRoundTrip ==
    (WrittenThenParsed /\ WellFormed(m_written)) =>
        /\ pc = "ota_done"
        /\ ota_raised = "none"
        /\ ota_update_data = m_written

\* two sections, the last with empty fields, have gone through the round trip
ManifestRoundTripWitness ==
    /\ WrittenThenParsed
    /\ WellFormed(m_written)
    /\ Len(m_written) = 2
    /\ m_written[2].val[KeyMd5] = StrVal(<<>>)
    /\ m_written[2].val[KeySize] = StrVal(<<>>)
    /\ m_written[1].val[KeyType] = StrVal(<<>>)

\* the stock file holds two full sections of the same img_type
DuplicateType ==
    \E i, j \in 1..Len(stock_sections) :
        /\ i < j
        /\ FullSection(stock_sections[i])
        /\ FullSection(stock_sections[j])
        /\ stock_sections[i].type = stock_sections[j].type

\* C8: a manifest text with two sections of the same img_type is refused with a
\* parse error; the parse never returns with one section in the place of both.
DuplicateTypeRejected == DuplicateType => pc # "ota_done"

----------------------------------------------------------------------------
(* Properties of the credential injection *)

\* a line without its line feed, and the line feed it ends with
LineBody(line) == IF line # <<>> /\ line[Len(line)] = LF THEN SubSeq(line, 1, Len(line) - 1) ELSE line
LineEnd(line) == IF line # <<>> /\ line[Len(line)] = LF THEN <<LF>> ELSE <<>>

\* the colon-delimited fields of a line
Fields(line) == SplitOn(LineBody(line), <<COLON>>)

IsRootLine(line) == Fields(line)[1] = Root

\* C9: the injection changes only the second field of the line whose first
\* field is exactly root: that field becomes the hash; the other fields of the
\* line, every other line and the order of the lines stay as they were.
OnlyRootHashChanged ==
    pc = "customized" =>
        LET before == shadow_bak
            after == ReadLines(shadow_file)
        IN  /\ Len(after) = Len(before)
            /\ \A i \in 1..Len(before) :
                  IF IsRootLine(before[i])
                  THEN /\ Len(Fields(before[i])) >= 2
                       /\ Fields(after[i]) = [Fields(before[i]) EXCEPT ![2] = root_password_hash]
                       /\ LineEnd(after[i]) = LineEnd(before[i])
                  ELSE after[i] = before[i]

\* C10: with no line whose first field is root, the injection ends with an
\* error; it never returns normally.
MissingRootIsError ==
    (pc \in {"customized", "raised"} /\ \A i \in 1..Len(shadow_bak) : ~IsRootLine(shadow_bak[i]))
        => pc = "raised"

----------------------------------------------------------------------------
(* Properties of the pipeline and of the assembly of a found directory *)

\* every part of the image and every line of the digest chain is on disk
ChunkSetWritten ==
    /\ Cardinality(DOMAIN RootedParts) = Ceil(Len(image), chunk_size)
    /\ Len(ota_md5_file) = Ceil(Len(image), chunk_size)

\* C6: in every state of a run, aborted or failed ones included, the new
\* ota_update.in is on disk only if the whole chunk set and the digest chain are.
ManifestAfterChunks == ota_file[RootedPath].exists => ChunkSetWritten

\* the indices of the sorted parts run 0, 1, 2, ... and there is at least one
ContiguousRun ==
    /\ Len(rootfs_parts) > 0
    /\ \A i \in 1..Len(rootfs_parts) : IndexOf(rootfs_parts[i]) = i - 1

\* C7: a part set with a missing index, a duplicate index or no member makes the
\* assembly end with an error; it never completes normally on such a set.
SequenceErrorReported == pc = "assembled" => ContiguousRun

----------------------------------------------------------------------------
(* Properties of the manifest in a run of the pipeline *)

\* the sections of the stock ota_update.in and of the new one, as read by the parser
StockManifest == ParseOtaUpdateIn(ota_file[StockPath].data).parsed
NewManifest == ParseOtaUpdateIn(ota_file[RootedPath].data).parsed

IsRootfs(item) == item.key = StrVal(RootfsType)

\* write_ota_update_in has just returned: the stock file and the new one are on disk
ManifestWritten ==
    /\ pc = "ota_config_write"
    /\ ota_file[StockPath].exists
    /\ ota_file[RootedPath].exists

\* the new file has the sections of the stock file in their order; a section
\* other than rootfs has its four fields unchanged, rootfs has its type and name
SameButRootfs(stock, new) ==
    /\ Len(new) = Len(stock)
    /\ \A i \in 1..Len(stock) :
          /\ new[i].key = stock[i].key
          /\ DOMAIN new[i].val = {KeyType, KeyName, KeySize, KeyMd5}
          /\ IF IsRootfs(stock[i])
             THEN /\ new[i].val[KeyType] = stock[i].val[KeyType]
                  /\ new[i].val[KeyName] = stock[i].val[KeyName]
             ELSE \A k \in {KeyType, KeyName, KeySize, KeyMd5} : new[i].val[k] = stock[i].val[k]

ManifestFrameState ==
    ManifestWritten =>
        /\ ota_raised = "none"
        /\ \A stock \in {StockManifest}, new \in {NewManifest} : SameButRootfs(stock, new)

\* the new file is written by write_ota_update_in and stays as written until
\* the working directory is removed
ManifestFileStep ==
    \/ pc \in {"ota_write", "cleanup"}
    \/ ota_file'[RootedPath] = ota_file[RootedPath]

\* a step after the parse changes the dict in memory at most in the size and md5
\* of its rootfs section
ManifestFrameStep ==
    \/ pc = "ota_parse"
    \/ ota_update_data' = ota_update_data
    \/ /\ Len(ota_update_data') = Len(ota_update_data)
       /\ \A i \in 1..Len(ota_update_data) :
             /\ ota_update_data'[i].key = ota_update_data[i].key
             /\ DOMAIN ota_update_data'[i].val = DOMAIN ota_update_data[i].val
             /\ \A k \in DOMAIN ota_update_data[i].val :
                   ota_update_data'[i].val[k] # ota_update_data[i].val[k]
                       => (IsRootfs(ota_update_data[i]) /\ k \in {KeySize, KeyMd5})

\* C11: between the parse of the stock manifest and the writing of the new one,
\* main changes only the size and md5 of the rootfs section: every other section
\* is written with the type, name, size and md5 of the stock file, in the same
\* order, and rootfs keeps its type and name.
ManifestFrame == []ManifestFrameState /\ [][ManifestFrameStep /\ ManifestFileStep]_vars

\* the new file is written from a stock file of rootfs and one more section, and
\* the size of rootfs is not the stock one
ManifestFrameWitness ==
    /\ ManifestWritten
    /\ \E stock \in {StockManifest}, new \in {NewManifest} :
          /\ Len(stock) = 2
          /\ \E i, j \in 1..2 :
                /\ IsRootfs(stock[i])
                /\ ~IsRootfs(stock[j])
                /\ new[i].val[KeySize] # stock[i].val[KeySize]
                /\ new[i].val[KeyMd5] # stock[i].val[KeyMd5]

\* the part files and the manifest sections of the image file main has written
ReleaseParts == rooted_image.data.parts
ReleaseManifest == ParseOtaUpdateIn(rooted_image.data.ota_update_in.data).parsed

\* the contents of the parts of index i .. n-1, one after the other
RECURSIVE ConcatParts(_, _, _)
ConcatParts(dir, i, n) ==
    IF i >= n THEN <<>>
    ELSE dir[CHOOSE name \in DOMAIN dir : IndexOf(name) = i] \o ConcatParts(dir, i + 1, n)

\* a rootfs section whose md5 and size are those of the image the parts make up
DescribesParts(section, parts, chain_name) ==
    LET count == Cardinality(DOMAIN parts)
    IN  /\ {IndexOf(name) : name \in DOMAIN parts} = 0..(count - 1)
        /\ section[KeyMd5].s = MD5(ConcatParts(parts, 0, count))
        /\ section[KeyMd5].s = chain_name
        /\ \A name \in DOMAIN parts : IndexOf(name) = 0 => DigestField(name) = section[KeyMd5].s
        /\ section[KeySize].s = Digits(SumSizes(parts, DOMAIN parts))

\* C12: in the image file of a run that reached the archive step, the rootfs
\* section of the manifest describes the image that was split: its md5 is the
\* digest of the whole image, the one in the name of part 0 and in the name of
\* the digest-chain file, and its size is the sum of the sizes of the parts.
RootfsDescribesRelease ==
    rooted_image.exists =>
        \A m \in {ReleaseManifest}, parts \in {ReleaseParts} :
            /\ \E i \in 1..Len(m) : IsRootfs(m[i])
            /\ \A i \in 1..Len(m) :
                  IsRootfs(m[i]) => DescribesParts(m[i].val, parts, rooted_image.data.ota_md5_name)

\* an image file with more than one part and, in its manifest, rootfs and one
\* more section
RootfsDescribesReleaseWitness ==
    /\ rooted_image.exists
    /\ Cardinality(DOMAIN ReleaseParts) >= 2
    /\ \E m \in {ReleaseManifest} :
          /\ Len(m) = 2
          /\ \E i \in 1..2 : IsRootfs(m[i])

----------------------------------------------------------------------------
(* Properties of the parse of a stock file with short sections *)

\* the parse of a stock file has ended, with a dict or with an exception
StockParsed == pc \in {"ota_done", "raised"} /\ m_written = <<>>

\* the item of the dict a full section gives
ItemOf(sec) ==
    [key |-> StrVal(sec.type),
     val |-> Entry(StrVal(sec.type), StrVal(sec.name), StrVal(sec.size), StrVal(sec.md5))]

\* C13: a section of 1, 2 or 3 lines is no data: the parse does not fail on it,
\* it gives no item of the dict returned, and every item returned has the four
\* fields type, name, size and md5.
ShortSectionsIgnored ==
    StockParsed =>
        /\ pc = "ota_done"
        /\ \A i \in 1..Len(ota_update_data) :
              /\ DOMAIN ota_update_data[i].val = {KeyType, KeyName, KeySize, KeyMd5}
              /\ \E j \in 1..Len(stock_sections) :
                    /\ FullSection(stock_sections[j])
                    /\ ota_update_data[i] = ItemOf(stock_sections[j])

----------------------------------------------------------------------------
(* Properties of the order the parts of a split are assembled in *)

\* the parts of the split have been listed and sorted by name
PartsSorted == pc \in {"assemble_copy", "assemble_delete", "done"}

\* C14: for the parts of any split, of any number, the names sorted as strings
\* run through the indices 0, 1, 2, ... in rising order with no gap, so the
\* assembly copies the parts in the order they were cut.
LexOrderIsCutOrder ==
    PartsSorted =>
        /\ Len(rootfs_parts) = Ceil(Len(image), chunk_size)
        /\ \A i \in 1..Len(rootfs_parts) :
              /\ IndexOf(rootfs_parts[i]) = i - 1
              /\ part_i > i => SubSeq(assembled.data, (i - 1) * chunk_size + 1,
                                      Min(i * chunk_size, Len(image)))
                                   = ChunkOf(image, chunk_size, i - 1)

====
